---- MODULE Spec2Model ----
(***************************************************************************)
(* A model of flake8's utility module, src/flake8/utils.py:                *)
(*   - filenames_from, the generator that walks a directory tree with      *)
(*     os.walk and filters files and sub-directories with a predicate;     *)
(*   - stdin_get_value, the cached read of standard input;                 *)
(*   - parse_comma_separated_list and normalize_path, two pure functions.  *)
(*                                                                         *)
(* Strings are modelled structurally.  A path is the sequence of its       *)
(* components, so os.path.join(root, name) is Append(root, name) and a     *)
(* bare name is the one-component sequence <<name>>: a bare name and a     *)
(* joined path are different strings, as they are in Python.  For the two  *)
(* pure functions a string is the sequence of its characters.              *)
(***************************************************************************)
EXTENDS Integers, Sequences, FiniteSets, TLC

VARIABLES
    \* ---- filenames_from -------------------------------------------------
    arg_isdir,        \* os.path.isdir(arg)
    dir_listing,      \* sub-directory names of a directory, in listing order
    file_listing,     \* file names of a directory, in listing order
    predicate,        \* the predicate argument: [isNone, excl]
    pc,               \* position of the generator
    stack,            \* os.walk: directories still to visit, next one first
    root,             \* the loop variable root of line 118
    sub_directories,  \* the live list os.walk handed out for root
    files,            \* the files list os.walk handed out for root
    fi,               \* index of the current file of the loop of line 119
    di,               \* the list iterator's position in the loop of line 126
    trace,            \* observable events: listings, predicate calls, yields
    \* ---- stdin_get_value ------------------------------------------------
    stdin_text,       \* what is piped to the process on standard input
    stdin_eof,        \* sys.stdin has been read to its end
    stdin_reads,      \* number of sys.stdin.read() calls made so far
    cached_stdin,     \* the function attribute: [isNone, value]
    cached_value,     \* the local variable of the call in progress
    s_pc,             \* position inside stdin_get_value
    s_log,            \* outcome of every finished call: [ok, value]
    \* ---- parse_comma_separated_list -------------------------------------
    p_value,          \* the argument: [kind, str, items]
    p_result,         \* the list returned
    p_pc,
    \* ---- normalize_path -------------------------------------------------
    n_input,          \* the path first handed to normalize_path
    n_parent,         \* the parent argument
    n_cwd,            \* the process's working directory (os.getcwd())
    n_hist,           \* results of the successive applications
    n_pc

walk_vars == <<arg_isdir, dir_listing, file_listing, predicate, pc, stack, root,
               sub_directories, files, fi, di, trace>>

stdin_vars == <<stdin_text, stdin_eof, stdin_reads, cached_stdin, cached_value,
                s_pc, s_log>>

parse_vars == <<p_value, p_result, p_pc>>

norm_vars == <<n_input, n_parent, n_cwd, n_hist, n_pc>>

vars == <<walk_vars, stdin_vars, parse_vars, norm_vars>>

----------------------------------------------------------------------------
(* Bounds of the explored inputs *)

MaxDepth == 2

DirNames == {"a", "b"}

FileNames == {"x", "y"}

\* The command-line argument handed to filenames_from.
ArgPath == <<"r">>

----------------------------------------------------------------------------
(* Helpers on sequences *)

Range(s) == {s[i] : i \in DOMAIN s}

\* All listings (orderings without repetition) of subsets of S.
Listings(S) ==
    {s \in UNION {[1..n -> S] : n \in 0..Cardinality(S)} :
        \A i, j \in DOMAIN s : i # j => s[i] # s[j]}

IndexOf(s, x) == CHOOSE i \in DOMAIN s : s[i] = x

IsPrefix(p, q) == Len(p) <= Len(q) /\ SubSeq(q, 1, Len(p)) = p

\* list.remove(x): delete the first occurrence of x.
ListRemove(s, x) ==
    LET k == CHOOSE i \in DOMAIN s : s[i] = x /\ \A j \in 1..(i-1) : s[j] # x
    IN  SubSeq(s, 1, k - 1) \o SubSeq(s, k + 1, Len(s))

----------------------------------------------------------------------------
(* The file system and the library calls filenames_from makes *)

os_path_join(a, b) == Append(a, b)

os_path_isdir(path) == arg_isdir

Depth(path) == Len(path) - Len(ArgPath)

\* What os.walk finds when it lists a directory: every directory holds the
\* files of file_listing, and the sub-directories of dir_listing down to
\* MaxDepth levels below the argument.
ListDirs(path) == IF Depth(path) < MaxDepth THEN dir_listing ELSE <<>>

ListFiles(path) == file_listing

\* Every directory of the tree under ArgPath.
TreeDirs ==
    {ArgPath \o s : s \in UNION {[1..n -> Range(dir_listing)] : n \in 0..MaxDepth}}

TreeFilePaths ==
    {os_path_join(d, f) : d \in TreeDirs, f \in Range(file_listing)}

default_predicate == [isNone |-> FALSE, excl |-> {}]

\* predicate(s): TRUE means "exclude".  A pure function of its argument.
PredicateCall(s) == s \in predicate.excl

Event(ev, site, dir, a) == [ev |-> ev, site |-> site, dir |-> dir, arg |-> a]

Listed(d) == Event("list", "walk", d, d)

Called(site, d, a) == Event("call", site, d, a)

YieldedEv(d, p) == Event("yield", "gen", d, p)

----------------------------------------------------------------------------
(* Initial states: the generator object has been created, nothing has run *)

Predicates ==
    {[isNone |-> TRUE, excl |-> {}]} \cup
    {[isNone |-> FALSE, excl |-> b \cup p] :
        b \in SUBSET {<<n>> : n \in DirNames \cup FileNames},
        p \in {{}} \cup {{q} : q \in TreeFilePaths \cup {ArgPath}}}

WalkInit ==
    /\ arg_isdir \in BOOLEAN
    /\ dir_listing \in Listings(DirNames)
    /\ file_listing \in Listings(FileNames)
    /\ arg_isdir = FALSE => dir_listing = <<>> /\ file_listing = <<>>
    /\ predicate \in Predicates
    /\ pc = "created"
    /\ stack = <<>>
    /\ root = <<>>
    /\ sub_directories = <<>>
    /\ files = <<>>
    /\ fi = 0
    /\ di = 0
    /\ trace = <<>>

Inputs == <<arg_isdir, dir_listing, file_listing>>

----------------------------------------------------------------------------
(* filenames_from, one action per step of the generator *)

Suspended == {"created", "yielded", "yielded_arg"}

\* The consumer asks for the next path: the generator resumes where it was
\* suspended (at its start, after line 123 or after line 130).
Resume ==
    /\ pc \in Suspended
    /\ pc' = CASE pc = "created" -> "entry"
               [] pc = "yielded" -> "for_file"
               [] pc = "yielded_arg" -> "done"
    /\ UNCHANGED <<Inputs, predicate, stack, root, sub_directories, files, fi, di, trace>>
    /\ UNCHANGED <<stdin_vars, parse_vars, norm_vars>>


\* Mutation of Entry: a non-directory argument is put through the predicate
\* and dropped when excluded.
EntryFiltersArg ==
    /\ pc = "entry"
    /\ predicate' = IF predicate.isNone THEN default_predicate ELSE predicate
    /\ IF os_path_isdir(ArgPath)
          THEN /\ pc' = "walk"
               /\ stack' = <<ArgPath>>
               /\ trace' = trace
          ELSE /\ pc' = IF PredicateCall(ArgPath) THEN "done" ELSE "yield_arg"
               /\ stack' = stack
               /\ trace' = Append(trace, Called("file", <<>>, ArgPath))
    /\ UNCHANGED <<Inputs, root, sub_directories, files, fi, di>>
    /\ UNCHANGED <<stdin_vars, parse_vars, norm_vars>>

\* Lines 115-117 (and 129): default the predicate, test os.path.isdir(arg).
Entry ==
    /\ pc = "entry"
    /\ predicate' = IF predicate.isNone THEN default_predicate ELSE predicate
    /\ IF os_path_isdir(ArgPath)
          THEN /\ pc' = "walk"
               /\ stack' = <<ArgPath>>
          ELSE /\ pc' = "yield_arg"
               /\ stack' = stack
    /\ UNCHANGED <<Inputs, root, sub_directories, files, fi, di, trace>>
    /\ UNCHANGED <<stdin_vars, parse_vars, norm_vars>>

\* Line 130: yield arg.
YieldArg ==
    /\ pc = "yield_arg"
    /\ trace' = Append(trace, YieldedEv(<<>>, ArgPath))
    /\ pc' = "yielded_arg"
    /\ UNCHANGED <<Inputs, predicate, stack, root, sub_directories, files, fi, di>>
    /\ UNCHANGED <<stdin_vars, parse_vars, norm_vars>>


\* Mutation of WalkNext: the walk lists the sub-directories of a directory
\* ahead of time, when it hands the directory out.
WalkNextEager ==
    /\ pc = "walk"
    /\ IF stack = <<>>
          THEN /\ pc' = "done"
               /\ UNCHANGED <<stack, root, sub_directories, files, fi, trace>>
          ELSE /\ root' = Head(stack)
               /\ stack' = Tail(stack)
               /\ sub_directories' = ListDirs(Head(stack))
               /\ files' = ListFiles(Head(stack))
               /\ trace' = Append(trace, Listed(Head(stack))) \o
                             [i \in DOMAIN ListDirs(Head(stack)) |->
                                 Listed(os_path_join(Head(stack), ListDirs(Head(stack))[i]))]
               /\ fi' = 0
               /\ pc' = "for_file"
    /\ UNCHANGED <<Inputs, predicate, di>>
    /\ UNCHANGED <<stdin_vars, parse_vars, norm_vars>>

\* Line 118, os.walk producing its next triple: the next pending directory
\* is listed and handed out; with nothing pending the walk, and with it the
\* generator, is finished.
WalkNext ==
    /\ pc = "walk"
    /\ IF stack = <<>>
          THEN /\ pc' = "done"
               /\ UNCHANGED <<stack, root, sub_directories, files, fi, trace>>
          ELSE /\ root' = Head(stack)
               /\ stack' = Tail(stack)
               /\ sub_directories' = ListDirs(Head(stack))
               /\ files' = ListFiles(Head(stack))
               /\ trace' = Append(trace, Listed(Head(stack)))
               /\ fi' = 0
               /\ pc' = "for_file"
    /\ UNCHANGED <<Inputs, predicate, di>>
    /\ UNCHANGED <<stdin_vars, parse_vars, norm_vars>>

\* Lines 119-120: the head of the loop over files.
ForFile ==
    /\ pc = "for_file"
    /\ IF fi < Len(files)
          THEN /\ fi' = fi + 1
               /\ pc' = "check_bare"
               /\ di' = di
          ELSE /\ pc' = "for_directory"
               /\ di' = 1
               /\ fi' = fi
    /\ UNCHANGED <<Inputs, predicate, stack, root, sub_directories, files, trace>>
    /\ UNCHANGED <<stdin_vars, parse_vars, norm_vars>>


\* Mutation of CheckBare: both operands are always evaluated ("|" for "or").
CheckBareNoShortCircuit ==
    /\ pc = "check_bare"
    /\ trace' = Append(trace, Called("file", root, <<files[fi]>>))
    /\ pc' = "check_joined"
    /\ UNCHANGED <<Inputs, predicate, stack, root, sub_directories, files, fi, di>>
    /\ UNCHANGED <<stdin_vars, parse_vars, norm_vars>>

\* Line 121, left operand of "or": predicate(filename).  A true result
\* decides the disjunction: the right operand is not evaluated (line 122).
CheckBare ==
    /\ pc = "check_bare"
    /\ trace' = Append(trace, Called("file", root, <<files[fi]>>))
    /\ pc' = IF PredicateCall(<<files[fi]>>) THEN "for_file" ELSE "check_joined"
    /\ UNCHANGED <<Inputs, predicate, stack, root, sub_directories, files, fi, di>>
    /\ UNCHANGED <<stdin_vars, parse_vars, norm_vars>>


\* Mutation of CheckJoined: the result of predicate(joined) is dropped.
CheckJoinedResultIgnored ==
    /\ pc = "check_joined"
    /\ trace' = Append(trace, Called("file", root, os_path_join(root, files[fi])))
    /\ pc' = "yield"
    /\ UNCHANGED <<Inputs, predicate, stack, root, sub_directories, files, fi, di>>
    /\ UNCHANGED <<stdin_vars, parse_vars, norm_vars>>

\* Line 121, right operand of "or": predicate(joined).
CheckJoined ==
    /\ pc = "check_joined"
    /\ trace' = Append(trace, Called("file", root, os_path_join(root, files[fi])))
    /\ pc' = IF PredicateCall(os_path_join(root, files[fi])) THEN "for_file" ELSE "yield"
    /\ UNCHANGED <<Inputs, predicate, stack, root, sub_directories, files, fi, di>>
    /\ UNCHANGED <<stdin_vars, parse_vars, norm_vars>>

\* Line 123: yield joined; the generator is suspended there.
Yield ==
    /\ pc = "yield"
    /\ trace' = Append(trace, YieldedEv(root, os_path_join(root, files[fi])))
    /\ pc' = "yielded"
    /\ UNCHANGED <<Inputs, predicate, stack, root, sub_directories, files, fi, di>>
    /\ UNCHANGED <<stdin_vars, parse_vars, norm_vars>>

\* Lines 126-128, one iteration of the loop over the live list: the list
\* iterator hands out the element at its position and advances; a removal
\* shifts the later elements one place to the left under the iterator.
ForDirectory ==
    /\ pc = "for_directory"
    /\ di <= Len(sub_directories)
    /\ LET directory == sub_directories[di] IN
          /\ trace' = Append(trace, Called("dir", root, <<directory>>))
          /\ sub_directories' = IF PredicateCall(<<directory>>)
                                   THEN ListRemove(sub_directories, directory)
                                   ELSE sub_directories
    /\ di' = di + 1
    /\ UNCHANGED <<Inputs, predicate, pc, stack, root, files, fi>>
    /\ UNCHANGED <<stdin_vars, parse_vars, norm_vars>>


\* Mutation of EndDirectories: the remaining sub-directories are scheduled
\* behind everything already pending (breadth first).
EndDirectoriesBreadthFirst ==
    /\ pc = "for_directory"
    /\ di > Len(sub_directories)
    /\ stack' = stack \o [i \in 1..Len(sub_directories) |->
                             os_path_join(root, sub_directories[i])]
    /\ pc' = "walk"
    /\ UNCHANGED <<Inputs, predicate, root, sub_directories, files, fi, di, trace>>
    /\ UNCHANGED <<stdin_vars, parse_vars, norm_vars>>

\* Line 126 with the iterator exhausted, back to line 118: os.walk resumes
\* and schedules what is left in the list, in order, ahead of everything
\* already pending.
EndDirectories ==
    /\ pc = "for_directory"
    /\ di > Len(sub_directories)
    /\ stack' = [i \in 1..Len(sub_directories) |->
                    os_path_join(root, sub_directories[i])] \o stack
    /\ pc' = "walk"
    /\ UNCHANGED <<Inputs, predicate, root, sub_directories, files, fi, di, trace>>
    /\ UNCHANGED <<stdin_vars, parse_vars, norm_vars>>

WalkIdle ==
    /\ arg_isdir = FALSE
    /\ dir_listing = <<>>
    /\ file_listing = <<>>
    /\ predicate = default_predicate
    /\ pc = "idle"
    /\ stack = <<>>
    /\ root = <<>>
    /\ sub_directories = <<>>
    /\ files = <<>>
    /\ fi = 0
    /\ di = 0
    /\ trace = <<>>

----------------------------------------------------------------------------
(* Strings as sequences of characters *)

MaxStdinLen == 2

MaxCalls == 3

MaxStrLen == 3

MaxItems == 2

MaxItemLen == 1

MaxPathLen == 4

MaxApply == 2

Strings(alphabet, n) == UNION {[1..k -> alphabet] : k \in 0..n}

Whitespace == {" ", "\t", "\n", "\r"}

\* str.lstrip() / str.rstrip(chars) / str.strip()
LStrip(s, chars) ==
    LET keep == {i \in DOMAIN s : s[i] \notin chars}
    IN  IF keep = {} THEN <<>>
        ELSE SubSeq(s, CHOOSE i \in keep : \A j \in keep : i <= j, Len(s))

RStrip(s, chars) ==
    LET keep == {i \in DOMAIN s : s[i] \notin chars}
    IN  IF keep = {} THEN <<>>
        ELSE SubSeq(s, 1, CHOOSE i \in keep : \A j \in keep : i >= j)

Strip(s) == RStrip(LStrip(s, Whitespace), Whitespace)

\* str.split(sep) for a one-character separator: always at least one item.
RECURSIVE Split(_, _)
Split(s, sep) ==
    LET hits == {i \in DOMAIN s : s[i] = sep}
    IN  IF hits = {} THEN <<s>>
        ELSE LET k == CHOOSE i \in hits : \A j \in hits : i <= j
             IN  <<SubSeq(s, 1, k - 1)>> \o Split(SubSeq(s, k + 1, Len(s)), sep)

RECURSIVE JoinWith(_, _)
JoinWith(parts, sep) ==
    IF parts = <<>> THEN <<>>
    ELSE IF Len(parts) = 1 THEN parts[1]
    ELSE parts[1] \o <<sep>> \o JoinWith(Tail(parts), sep)

StartsWith(s, p) == Len(p) <= Len(s) /\ SubSeq(s, 1, Len(p)) = p

----------------------------------------------------------------------------
(* stdin_get_value *)

StdinAlphabet == {"a", "b"}

None == [isNone |-> TRUE, value |-> <<>>]

StringIO(v) == [isNone |-> FALSE, value |-> v]

StdinInit ==
    /\ stdin_text \in Strings(StdinAlphabet, MaxStdinLen)
    /\ stdin_eof = FALSE
    /\ stdin_reads = 0
    /\ cached_stdin = None
    /\ cached_value = None
    /\ s_pc = "ready"
    /\ s_log = <<>>

StdinIdle ==
    /\ stdin_text = <<>>
    /\ stdin_eof = FALSE
    /\ stdin_reads = 0
    /\ cached_stdin = None
    /\ cached_value = None
    /\ s_pc = "idle"
    /\ s_log = <<>>

\* sys.stdin.read(): everything up to end of file, and nothing after it.
sys_stdin_read == IF stdin_eof THEN <<>> ELSE stdin_text

\* Line 60: cached_value = getattr(stdin_get_value, 'cached_stdin', None).
StdinGetattr ==
    /\ s_pc = "ready"
    /\ Len(s_log) < MaxCalls
    /\ cached_value' = cached_stdin
    /\ s_pc' = "test"
    /\ UNCHANGED <<stdin_text, stdin_eof, stdin_reads, cached_stdin, s_log>>
    /\ UNCHANGED <<walk_vars, parse_vars, norm_vars>>

\* Lines 61-67: on a miss read standard input and store it in the function
\* attribute; the local cached_value is not assigned.
StdinFill ==
    /\ s_pc = "test"
    /\ IF cached_value.isNone
          THEN /\ cached_stdin' = StringIO(sys_stdin_read)
               /\ stdin_eof' = TRUE
               /\ stdin_reads' = stdin_reads + 1
          ELSE UNCHANGED <<cached_stdin, stdin_eof, stdin_reads>>
    /\ s_pc' = "return"
    /\ UNCHANGED <<stdin_text, cached_value, s_log>>
    /\ UNCHANGED <<walk_vars, parse_vars, norm_vars>>

\* Line 68: return cached_value.getvalue(); None has no getvalue, and the
\* call raises AttributeError.
StdinReturn ==
    /\ s_pc = "return"
    /\ s_log' = Append(s_log, IF cached_value.isNone
                                 THEN [ok |-> FALSE, value |-> <<>>]
                                 ELSE [ok |-> TRUE, value |-> cached_value.value])
    /\ cached_value' = None
    /\ s_pc' = "ready"
    /\ UNCHANGED <<stdin_text, stdin_eof, stdin_reads, cached_stdin>>
    /\ UNCHANGED <<walk_vars, parse_vars, norm_vars>>

----------------------------------------------------------------------------
(* parse_comma_separated_list *)

ParseAlphabet == {"a", ",", " ", "\t"}

ParseValues ==
    {[kind |-> "none", str |-> <<>>, items |-> <<>>]} \cup
    {[kind |-> "str", str |-> s, items |-> <<>>] : s \in Strings(ParseAlphabet, MaxStrLen)} \cup
    {[kind |-> "list", str |-> <<>>, items |-> l] :
        l \in Strings(Strings(ParseAlphabet, MaxItemLen), MaxItems)}

\* Python's truth value of the argument (line 21).
Falsy(value) ==
    \/ value.kind = "none"
    \/ value.kind = "str" /\ value.str = <<>>
    \/ value.kind = "list" /\ value.items = <<>>


\* Mutation of parse_comma_separated_list: items that strip to nothing are
\* left out.
parse_dropping_empty_items(value) ==
    IF Falsy(value) THEN <<>>
    ELSE LET items == IF value.kind = "list" THEN value.items
                      ELSE Split(value.str, ",")
         IN  SelectSeq([i \in DOMAIN items |-> Strip(items[i])], LAMBDA x : x # <<>>)

parse_comma_separated_list(value) ==
    IF Falsy(value) THEN <<>>
    ELSE LET items == IF value.kind = "list" THEN value.items
                      ELSE Split(value.str, ",")
         IN  [i \in DOMAIN items |-> Strip(items[i])]

ParseInit ==
    /\ p_value \in ParseValues
    /\ p_result = <<>>
    /\ p_pc = "ready"

ParseIdle ==
    /\ p_value = [kind |-> "none", str |-> <<>>, items |-> <<>>]
    /\ p_result = <<>>
    /\ p_pc = "idle"

ParseCall ==
    /\ p_pc = "ready"
    /\ p_result' = parse_comma_separated_list(p_value)
    /\ p_pc' = "done"
    /\ UNCHANGED p_value
    /\ UNCHANGED <<walk_vars, stdin_vars, norm_vars>>

----------------------------------------------------------------------------
(* normalize_path, with the posixpath functions it calls *)

PathAlphabet == {"/", "a", "."}

Parents == {<<".">>, <<"p">>, <<"/", "p">>, <<"p", "/">>}

Cwds == {<<"/">>, <<"/", "c">>}

posixpath_isabs(s) == StartsWith(s, <<"/">>)

posixpath_join(a, p) ==
    IF posixpath_isabs(p) THEN p
    ELSE IF a = <<>> \/ a[Len(a)] = "/" THEN a \o p
    ELSE a \o <<"/">> \o p

\* The component loop of posixpath.normpath: drop '' and '.', and let '..'
\* cancel the component before it where there is one to cancel.
RECURSIVE NormComps(_, _, _)
NormComps(comps, new_comps, initial_slashes) ==
    IF comps = <<>> THEN new_comps
    ELSE LET comp == Head(comps) IN
         IF comp \in {<<>>, <<".">>}
            THEN NormComps(Tail(comps), new_comps, initial_slashes)
         ELSE IF \/ comp # <<".", ".">>
                 \/ (initial_slashes = 0 /\ new_comps = <<>>)
                 \/ (new_comps # <<>> /\ new_comps[Len(new_comps)] = <<".", ".">>)
            THEN NormComps(Tail(comps), Append(new_comps, comp), initial_slashes)
         ELSE IF new_comps # <<>>
            THEN NormComps(Tail(comps), SubSeq(new_comps, 1, Len(new_comps) - 1),
                           initial_slashes)
         ELSE NormComps(Tail(comps), new_comps, initial_slashes)

posixpath_normpath(path) ==
    IF path = <<>> THEN <<".">>
    ELSE LET initial_slashes ==
                 IF ~StartsWith(path, <<"/">>) THEN 0
                 ELSE IF StartsWith(path, <<"/", "/">>) /\ ~StartsWith(path, <<"/", "/", "/">>)
                      THEN 2 ELSE 1
             body == JoinWith(NormComps(Split(path, "/"), <<>>, initial_slashes), "/")
             res == [i \in 1..initial_slashes |-> "/"] \o body
         IN  IF res = <<>> THEN <<".">> ELSE res

posixpath_abspath(path) ==
    posixpath_normpath(IF posixpath_isabs(path) THEN path
                       ELSE posixpath_join(n_cwd, path))


\* Mutation of normalize_path: the joined path is not made absolute.
normalize_path_without_abspath(path, parent) ==
    LET p == IF "/" \in Range(path)
                THEN posixpath_join(parent, path)
                ELSE path
    IN  RStrip(p, {"/"})

normalize_path(path, parent) ==
    LET p == IF "/" \in Range(path)
                THEN posixpath_abspath(posixpath_join(parent, path))
                ELSE path
    IN  RStrip(p, {"/"})

NormInit ==
    /\ n_input \in Strings(PathAlphabet, MaxPathLen)
    /\ n_parent \in Parents
    /\ n_cwd \in Cwds
    /\ n_hist = <<>>
    /\ n_pc = "ready"

NormIdle ==
    /\ n_input = <<>>
    /\ n_parent = <<".">>
    /\ n_cwd = <<"/">>
    /\ n_hist = <<>>
    /\ n_pc = "idle"

\* One more application: first to the input, then to the last result.
NormalizeCall ==
    /\ n_pc = "ready"
    /\ Len(n_hist) < MaxApply
    /\ n_hist' = Append(n_hist,
                        normalize_path(IF n_hist = <<>> THEN n_input
                                       ELSE n_hist[Len(n_hist)], n_parent))
    /\ UNCHANGED <<n_input, n_parent, n_cwd, n_pc>>
    /\ UNCHANGED <<walk_vars, stdin_vars, parse_vars>>

----------------------------------------------------------------------------
(* The module as a whole: one of its functions is exercised per behaviour *)

Init ==
    \/ WalkInit /\ StdinIdle /\ ParseIdle /\ NormIdle
    \/ WalkIdle /\ StdinInit /\ ParseIdle /\ NormIdle
    \/ WalkIdle /\ StdinIdle /\ ParseInit /\ NormIdle
    \/ WalkIdle /\ StdinIdle /\ ParseIdle /\ NormInit

Next ==
    \/ Resume
    \/ Entry
    \/ YieldArg
    \/ WalkNext
    \/ ForFile
    \/ CheckBare
    \/ CheckJoined
    \/ Yield
    \/ ForDirectory
    \/ EndDirectories
    \/ StdinGetattr
    \/ StdinFill
    \/ StdinReturn
    \/ ParseCall
    \/ NormalizeCall

Spec == Init /\ [][Next]_vars

----------------------------------------------------------------------------
(* Vocabulary of the properties of filenames_from *)

\* What predicate(s) returns, whichever predicate was passed.
Excluded(s) == s \in predicate.excl

IsYield(e) == e.ev = "yield"

IsList(e) == e.ev = "list"

IsDirCall(e) == e.ev = "call" /\ e.site = "dir"

ListedDirs == {trace[i].dir : i \in {j \in DOMAIN trace : IsList(trace[j])}}

NumCalls(site, d, a) ==
    Cardinality({i \in DOMAIN trace : trace[i] = Called(site, d, a)})

NumYields(p) ==
    Cardinality({i \in DOMAIN trace : IsYield(trace[i]) /\ trace[i].arg = p})

\* The directory names on the way from the argument down to d.
NamesBelowArg(d) == {d[k] : k \in (Len(ArgPath) + 1)..Len(d)}

UnderExcludedDir(d) == \E n \in NamesBelowArg(d) : Excluded(<<n>>)

\* The loop over sub_directories has run to its end for directory d.
LevelDone(d) ==
    /\ d \in ListedDirs
    /\ d # root \/ pc \in {"walk", "done"}

\* The k-th file of directory d has been through line 121 (and 123).
FileHandled(d, k) ==
    /\ d \in ListedDirs
    /\ \/ d # root
       \/ pc \in {"for_directory", "walk", "done"}
       \/ k < fi
       \/ k = fi /\ pc \in {"for_file", "yield", "yielded"}

\* d1 comes strictly before d2 in the pre-order of the tree: d1 is a proper
\* ancestor of d2, or where the two paths part d1 takes the sub-directory
\* listed earlier.
PreBefore(d1, d2) ==
    /\ d1 # d2
    /\ \/ IsPrefix(d1, d2)
       \/ \E k \in 1..Len(d1) :
             /\ k <= Len(d2)
             /\ SubSeq(d1, 1, k - 1) = SubSeq(d2, 1, k - 1)
             /\ d1[k] # d2[k]
             /\ LET parent == SubSeq(d1, 1, k - 1) IN
                   /\ d1[k] \in Range(ListDirs(parent))
                   /\ d2[k] \in Range(ListDirs(parent))
                   /\ IndexOf(ListDirs(parent), d1[k]) < IndexOf(ListDirs(parent), d2[k])

Basename(p) == p[Len(p)]

----------------------------------------------------------------------------
\* C1: filenames_from never descends into an excluded directory: no
\* directory with an excluded name on its way down from the argument is
\* ever listed, and no path under such a directory is yielded.
NeverEntersExcludedDirectory ==
    \A i \in DOMAIN trace :
        (IsList(trace[i]) \/ IsYield(trace[i])) => ~UnderExcludedDir(trace[i].dir)

\* C2: for every visited directory the predicate is called exactly once for
\* each of its sub-directories, with the bare name, before any descent from
\* that level.
EverySubdirectoryQueriedOnce ==
    /\ \A d \in ListedDirs :
          LevelDone(d) =>
              \A s \in Range(ListDirs(d)) : NumCalls("dir", d, <<s>>) = 1
    /\ \A i \in DOMAIN trace :
          IsDirCall(trace[i]) =>
              /\ Len(trace[i].arg) = 1
              /\ \A j \in DOMAIN trace :
                    (IsList(trace[j]) /\ trace[j].dir # trace[i].dir
                       /\ IsPrefix(trace[i].dir, trace[j].dir)) => i < j

\* C3: after a full traversal, a file of a directory with no excluded name
\* on the way down from the argument has been yielded exactly once, as
\* join(directory, name), when the predicate is false for its bare name and
\* for its joined path, and not at all otherwise.
IncludedFilesYieldedOnce ==
    (pc = "done" /\ arg_isdir) =>
        \A d \in TreeDirs :
            ~UnderExcludedDir(d) =>
                \A f \in Range(ListFiles(d)) :
                    NumYields(os_path_join(d, f)) =
                        IF ~Excluded(<<f>>) /\ ~Excluded(os_path_join(d, f)) THEN 1 ELSE 0

\* C3 witness: a finished traversal where, one level or more below the
\* argument, one file is dropped for its bare name, another for its joined
\* path, and the second one's namesake in the argument directory is yielded.
WitnessFilesFiltered ==
    /\ pc = "done"
    /\ arg_isdir
    /\ \E d \in TreeDirs : \E f, g \in Range(ListFiles(d)) :
          /\ Depth(d) >= 1
          /\ ~UnderExcludedDir(d)
          /\ Excluded(<<f>>)
          /\ ~Excluded(<<g>>)
          /\ Excluded(os_path_join(d, g))
          /\ NumYields(os_path_join(d, g)) = 0
          /\ NumYields(os_path_join(ArgPath, g)) = 1

\* C4: for an argument that is not a directory the generator yields the
\* argument itself, once, and finishes; the predicate is never called and
\* nothing is listed.
NonDirectoryYieldsArgOnce ==
    (pc # "idle" /\ ~arg_isdir) =>
        /\ \A i \in DOMAIN trace : IsYield(trace[i])
        /\ trace = IF pc \in {"yielded_arg", "done"}
                      THEN <<YieldedEv(<<>>, ArgPath)>>
                      ELSE <<>>

\* C4 witness: the generator has finished on a non-directory argument that
\* the predicate would have excluded.
WitnessNonDirectoryExcludedArg ==
    /\ pc = "done"
    /\ ~arg_isdir
    /\ Excluded(ArgPath)
    /\ NumYields(ArgPath) = 1

\* C5 as claimed: every file that has been through the filter accounts for
\* exactly two predicate calls, the bare name and then the joined path.
BothShapesAlwaysChecked ==
    \A d \in ListedDirs : \A k \in DOMAIN ListFiles(d) :
        FileHandled(d, k) =>
            LET f == ListFiles(d)[k] IN
                /\ NumCalls("file", d, <<f>>) = 1
                /\ NumCalls("file", d, os_path_join(d, f)) = 1

\* C5 as amended: the bare name is checked first, exactly once; the joined
\* path is checked, once and directly after, exactly when the predicate was
\* false for the bare name.
JoinedCheckedUnlessBareExcluded ==
    /\ \A d \in ListedDirs : \A k \in DOMAIN ListFiles(d) :
          FileHandled(d, k) =>
              LET f == ListFiles(d)[k] IN
                  /\ NumCalls("file", d, <<f>>) = 1
                  /\ NumCalls("file", d, os_path_join(d, f)) =
                         IF Excluded(<<f>>) THEN 0 ELSE 1
    /\ \A i \in DOMAIN trace :
          (trace[i].ev = "call" /\ trace[i].site = "file" /\ Len(trace[i].arg) > 1) =>
              /\ i > 1
              /\ trace[i - 1] = Called("file", trace[i].dir, <<Basename(trace[i].arg)>>)
              /\ trace[i].arg = os_path_join(trace[i].dir, Basename(trace[i].arg))

\* C5 witness: in one directory a file excluded by its bare name has had its
\* single call, and a file not excluded by it has had both.
WitnessShortCircuit ==
    \E d \in ListedDirs : \E k, m \in DOMAIN ListFiles(d) :
        /\ FileHandled(d, k)
        /\ FileHandled(d, m)
        /\ Excluded(<<ListFiles(d)[k]>>)
        /\ NumCalls("file", d, <<ListFiles(d)[k]>>) = 1
        /\ NumCalls("file", d, os_path_join(d, ListFiles(d)[k])) = 0
        /\ ~Excluded(<<ListFiles(d)[m]>>)
        /\ NumCalls("file", d, os_path_join(d, ListFiles(d)[m])) = 1

\* C9: the yielded paths come in pre-order: within one directory in listing
\* order, and across directories in the pre-order of the tree (a directory's
\* own files before those of its descendants, one subtree wholly before the
\* next sibling's).
YieldsInPreOrder ==
    arg_isdir =>
        \A i, j \in DOMAIN trace :
            (i < j /\ IsYield(trace[i]) /\ IsYield(trace[j])) =>
                IF trace[i].dir = trace[j].dir
                   THEN IndexOf(ListFiles(trace[i].dir), Basename(trace[i].arg))
                          < IndexOf(ListFiles(trace[j].dir), Basename(trace[j].arg))
                   ELSE PreBefore(trace[i].dir, trace[j].dir)

\* C9 witness: a finished traversal that yielded two files of the argument
\* directory, then files two levels down, then files of a later sibling.
WitnessPreOrderAcrossSubtrees ==
    /\ pc = "done"
    /\ Len(file_listing) = 2
    /\ Len(dir_listing) = 2
    /\ \A p \in TreeFilePaths : NumYields(p) = 1

\* C10: the generator is lazy.  Whenever it is suspended at line 123 after
\* yielding a file of root, only root and directories before it in pre-order
\* have been listed, none of root's sub-directory checks has run, and the
\* yield is the last thing that happened; and a suspended generator does
\* nothing (lists nothing, calls nothing, schedules nothing) until resumed.
LazyAtYield ==
    pc = "yielded" =>
        /\ \A d \in ListedDirs : d = root \/ PreBefore(d, root)
        /\ \A i \in DOMAIN trace : ~(IsDirCall(trace[i]) /\ trace[i].dir = root)
        /\ trace # <<>>
        /\ IsYield(trace[Len(trace)])
        /\ trace[Len(trace)].dir = root

IdleWhileSuspended ==
    pc \in Suspended => (trace' = trace /\ stack' = stack)

LazyTraversal == []LazyAtYield /\ [][IdleWhileSuspended]_vars

\* C10 witness: suspended on a file one level down with a later sibling and
\* the directory's own sub-directory checks still pending.
WitnessSuspendedDeep ==
    /\ pc = "yielded"
    /\ Depth(root) = 1
    /\ Len(sub_directories) = 2
    /\ Cardinality(ListedDirs) = 2
    /\ stack # <<>>

----------------------------------------------------------------------------
(* Properties of stdin_get_value, parse_comma_separated_list, normalize_path *)

\* C6: standard input is read exactly once, by the first call, and every
\* call, the first included, returns the string that was read; none fails.
StdinReadOnceAndAlwaysReturned ==
    /\ stdin_reads <= 1
    /\ s_log # <<>> => stdin_reads = 1
    /\ \A i \in DOMAIN s_log : s_log[i].ok /\ s_log[i].value = stdin_text

HasComma(s) == "," \in Range(s)

\* C7 as claimed: for every string s without a comma, the empty string
\* included, parse_comma_separated_list(s) is the one-element list [s.strip()].
NoCommaGivesStrippedSingleton ==
    (p_pc = "done" /\ p_value.kind = "str" /\ ~HasComma(p_value.str)) =>
        p_result = <<Strip(p_value.str)>>

\* C7 as amended: the same for every non-empty string without a comma (the
\* empty string gives the empty list).  The one element is s without its
\* leading and trailing whitespace.
NonEmptyNoCommaGivesStrippedSingleton ==
    (p_pc = "done" /\ p_value.kind = "str" /\ ~HasComma(p_value.str)) =>
        IF p_value.str = <<>>
           THEN p_result = <<>>
           ELSE /\ p_result = <<Strip(p_value.str)>>
                /\ LET r == p_result[1] IN
                      /\ r # <<>> => r[1] \notin Whitespace /\ r[Len(r)] \notin Whitespace
                      /\ \E a \in 0..Len(p_value.str) :
                            /\ SubSeq(p_value.str, a + 1, a + Len(r)) = r
                            /\ a + Len(r) <= Len(p_value.str)
                            /\ \A i \in DOMAIN p_value.str :
                                  (i <= a \/ i > a + Len(r)) => p_value.str[i] \in Whitespace

\* C7 witness: a whitespace-only string has been parsed to [""].
WitnessWhitespaceOnlyParsed ==
    /\ p_pc = "done"
    /\ p_value.kind = "str"
    /\ p_value.str # <<>>
    /\ \A i \in DOMAIN p_value.str : p_value.str[i] \in Whitespace
    /\ p_result = << <<>> >>

\* C8: normalize_path is idempotent for a fixed parent, and its result never
\* ends with a separator.
NormalizePathIdempotent ==
    \A i \in DOMAIN n_hist :
        /\ i > 1 => n_hist[i] = n_hist[i - 1]
        /\ n_hist[i] # <<>> => n_hist[i][Len(n_hist[i])] # "/"

\* C8 witness: a relative path with a trailing separator has been normalized
\* twice, and the first pass changed it.
WitnessNormalizedTwice ==
    /\ Len(n_hist) >= 2
    /\ n_input # <<>>
    /\ n_input[Len(n_input)] = "/"
    /\ ~posixpath_isabs(n_input)
    /\ n_hist[1] # n_input
    /\ n_hist[1] # <<>>

====
